---- MODULE Spec2Model ----
(***************************************************************************)
(* A model of QUBEKit/engines/rdkit.py: the static-method facade RDKit     *)
(* over the cheminformatics toolkit.                                       *)
(*                                                                         *)
(* The molecule handed to the methods is one mutable toolkit object; its   *)
(* state is the atom count, the per-atom "_CIPRank" properties and the     *)
(* list of conformers. Each method is one action. The calls the methods    *)
(* make into the toolkit are modelled by the toolkit's contract, and an    *)
(* outcome the toolkit decides (ranks it assigns, embeddings that fail,    *)
(* files it cannot parse) is a nondeterministic choice.                    *)
(*                                                                         *)
(* Python text is a sequence of one-character strings where the code       *)
(* converts it (str(i), int(prop)); file names and selector keys, which    *)
(* the code only compares and concatenates, are TLA+ strings.              *)
(***************************************************************************)
EXTENDS Integers, Sequences, FiniteSets, TLC

VARIABLES
    natoms,        \* rdkit_mol.GetNumAtoms()
    cipRank,       \* the "_CIPRank" property of every atom, <<>> when the atom has none
    conformers,    \* rdkit_mol.GetConformers(): a sequence of conformers
    call,          \* the last call made on the facade, with its arguments
    ret,           \* how that call ended: a returned value or a raised error
    toolkitCalls,  \* the toolkit functions the last call invoked, in order
    files          \* the names of the files written so far

vars == <<natoms, cipRank, conformers, call, ret, toolkitCalls, files>>

\* ---------------------------------------------------------------- bounds

MaxRankedAtoms == 3
MaxRank == 10
MaxAtoms == 2
MaxConfs == 2

\* ---------------------------------------------------------------- results

Return(v) == [kind |-> "return", value |-> v]
Raise(e) == [kind |-> "raise", value |-> e]
NoCall == [op |-> "none"]
NoResult == [kind |-> "none", value |-> "none"]

\* ---------------------------------------------------------------- text and integers

Digits == <<"0", "1", "2", "3", "4", "5", "6", "7", "8", "9">>

\* str(n) of a Python integer: its decimal digits, most significant first,
\* after a "-" for a negative one.
RECURSIVE StrNat(_)
StrNat(n) ==
    IF n < 10 THEN <<Digits[n + 1]>>
    ELSE Append(StrNat(n \div 10), Digits[(n % 10) + 1])

StrLastDigit(n) == <<Digits[(n % 10) + 1]>>

str(n) == IF n < 0 THEN <<"-">> \o StrNat(0 - n) ELSE StrNat(n)

DigitValue(c) == CHOOSE d \in 0..9 : Digits[d + 1] = c

\* int(s) of a Python string that holds a decimal numeral.
RECURSIVE IntNat(_)
IntNat(s) ==
    IF s = <<>> THEN 0
    ELSE 10 * IntNat(SubSeq(s, 1, Len(s) - 1)) + DigitValue(s[Len(s)])

int(s) == IF s[1] = "-" THEN 0 - IntNat(Tail(s)) ELSE IntNat(s)

\* ---------------------------------------------------------------- find_symmetry_classes

NoProp == <<>>
HasProp(p) == p # NoProp

NeedsRanksAlways(props) == TRUE

\* if not rdkit_mol.GetAtomWithIdx(0).HasProp("_CIPRank"): only the first atom is asked
NeedsRanks(props) == ~HasProp(props[1])

\* The rank values a caller may have left on the atoms: a negative one, the
\* first ones from 0, and one- and two-digit ones after a gap.
RankValues == {0 - 1, 0, 1, MaxRank \div 2, MaxRank}

\* the same as the property text
RankProps == {str(v) : v \in RankValues}

\* Chem.AssignStereochemistry(mol, cleanIt=True, force=True,
\* flagPossibleStereoCenters=True): writes a "_CIPRank" on every atom. The
\* ranks are the toolkit's; they are ranks of the atoms, so below the atom count.
AssignStereochemistry(n) == [1..n -> {str(v) : v \in 0..(n - 1)}]

\* cip_ranks = np.array([int(atom.GetProp("_CIPRank")) for atom in mol.GetAtoms()])
cip_ranks(props) == [a \in 1..Len(props) |-> int(props[a])]

\* max(cip_ranks), of a non-empty array
max(ranks) == CHOOSE m \in {ranks[a] : a \in 1..Len(ranks)} :
                  \A a \in 1..Len(ranks) : ranks[a] <= m

\* np.where(cip_ranks == rank)[0].tolist(): the atom indices (from 0) whose
\* rank is `rank`, ascending.
where(ranks, rank) ==
    LET F[k \in 0..Len(ranks)] ==
            IF k = 0 THEN <<>>
            ELSE IF ranks[k] = rank THEN Append(F[k - 1], k - 1) ELSE F[k - 1]
    IN  F[Len(ranks)]

atom_symmetry_classes_short(ranks) ==
    [r \in 1..max(ranks) |-> where(ranks, r - 1)]

\* [np.where(cip_ranks == rank)[0].tolist() for rank in range(max(cip_ranks) + 1)]
atom_symmetry_classes(ranks) ==
    [r \in 1..(max(ranks) + 1) |-> where(ranks, r - 1)]

EmptyDict == [k \in {} |-> <<>>]
DictSet(d, k, v) == [x \in (DOMAIN d) \cup {k} |-> IF x = k THEN v ELSE d[x]]

\* for atom in sym_class: atom_symmetry_classes_dict[atom] = label
RECURSIVE AssignClass(_, _, _)
AssignClass(d, sym_class, label) ==
    IF sym_class = <<>> THEN d
    ELSE AssignClass(DictSet(d, Head(sym_class), label), Tail(sym_class), label)

\* the class label of the bucket that enumerate() numbers i
ClassLabelLastDigit(i) == StrLastDigit(i)

ClassLabel(i) == str(i)

\* the number enumerate() gives the bucket at position pos (from 1) of classes
EnumerateDense(classes, pos) ==
    Cardinality({q \in 1..(pos - 1) : classes[q] # <<>>})

Enumerate(classes, pos) == pos - 1

\* for i, sym_class in enumerate(atom_symmetry_classes): ... = str(i)
atom_symmetry_classes_dict(classes) ==
    LET F[pos \in 0..Len(classes)] ==
            IF pos = 0 THEN EmptyDict
            ELSE AssignClass(F[pos - 1], classes[pos],
                             ClassLabel(Enumerate(classes, pos)))
    IN  F[Len(classes)]

\* The molecule a caller hands over: every atom with a rank a caller or an
\* earlier call left on it, or with none, and at most one conformer.
Origin == [x |-> 0, y |-> 0, z |-> 0]

SymInit ==
    /\ natoms \in 0..MaxRankedAtoms
    /\ cipRank \in [1..natoms -> RankProps \cup {NoProp}]
    /\ conformers \in {<<>>, <<[a \in 1..natoms |-> Origin]>>}
    /\ call = NoCall
    /\ ret = NoResult
    /\ toolkitCalls = <<>>
    /\ files = {}

find_symmetry_classes ==
    /\ call' = [op |-> "find_symmetry_classes"]
    /\ UNCHANGED <<natoms, conformers, files>>
    /\ IF natoms = 0
       THEN \* rdkit_mol.GetAtomWithIdx(0) of a molecule with no atom
            /\ ret' = Raise("RuntimeError")
            /\ toolkitCalls' = <<>>
            /\ UNCHANGED cipRank
       ELSE /\ IF NeedsRanks(cipRank)
               THEN /\ cipRank' \in AssignStereochemistry(natoms)
                    /\ toolkitCalls' = <<"AssignStereochemistry">>
               ELSE /\ toolkitCalls' = <<>>
                    /\ UNCHANGED cipRank
            /\ ret' = IF \E a \in 1..natoms : ~HasProp(cipRank'[a])
                      THEN \* atom.GetProp("_CIPRank") of an atom without it
                           Raise("KeyError")
                      ELSE Return(atom_symmetry_classes_dict(
                               atom_symmetry_classes(cip_ranks(cipRank'))))

SymNext == find_symmetry_classes

SpecSym == SymInit /\ [][SymNext]_vars

\* ---------------------------------------------------------------- symmetry classification: properties

CalledSym == call.op = "find_symmetry_classes"

\* The rank array R of the last classification is the molecule's ranks after
\* the call: the ones it found, or the ones it had the toolkit assign.
AllRanked == \A a \in 1..natoms : HasProp(cipRank[a])
RankArray == cip_ranks(cipRank)
NonNegativeRanks == AllRanked /\ \A a \in 1..natoms : RankArray[a] >= 0
SomeNegativeRank == \E a \in 1..natoms : HasProp(cipRank[a]) /\ int(cipRank[a]) < 0
Labels(d) == {d[i] : i \in DOMAIN d}
DistinctRanks == {RankArray[a] : a \in 1..natoms}

\* C1: for a rank array of length N >= 1 of non-negative integers the returned
\* mapping has exactly the keys 0..N-1.
SymKeysExact ==
    (CalledSym /\ natoms >= 1 /\ NonNegativeRanks) =>
        /\ ret.kind = "return"
        /\ DOMAIN ret.value = 0..(natoms - 1)

SymKeysExactWitness ==
    /\ CalledSym
    /\ natoms = 3
    /\ cipRank = <<str(10), str(1), str(5)>>
    /\ ret.kind = "return"
    /\ DOMAIN ret.value = {0, 1, 2}

\* C2: atoms i and j get the same label iff R[i] = R[j], so there are as many
\* distinct labels as distinct rank values.
SymSameLabelIffSameRank ==
    (CalledSym /\ natoms >= 1 /\ NonNegativeRanks) =>
        /\ ret.kind = "return"
        /\ \A i, j \in DOMAIN ret.value :
               (ret.value[i] = ret.value[j]) <=> (RankArray[i + 1] = RankArray[j + 1])
        /\ Cardinality(Labels(ret.value)) = Cardinality(DistinctRanks)

SymSameLabelWitness ==
    /\ CalledSym
    /\ natoms = 3
    /\ cipRank = <<str(10), str(0), str(10)>>
    /\ ret.kind = "return"
    /\ ret.value[0] = ret.value[2]
    /\ ret.value[0] # ret.value[1]
    /\ Cardinality(Labels(ret.value)) = 2

\* C3, as claimed: the labels are dense and positional, "0" .. "k-1" for k
\* distinct rank values, ascending with the rank, whatever the gaps in R.
SymLabelsDense ==
    (CalledSym /\ natoms >= 1 /\ NonNegativeRanks) =>
        /\ ret.kind = "return"
        /\ Labels(ret.value) = {str(j) : j \in 0..(Cardinality(DistinctRanks) - 1)}
        /\ \A i, j \in DOMAIN ret.value :
               RankArray[i + 1] < RankArray[j + 1] => int(ret.value[i]) < int(ret.value[j])

\* C3, amended: the label of an atom is its raw rank, stringified (the number
\* of its bucket among all the buckets 0..max(R), the empty ones included), so
\* the labels ascend with the rank and are dense only when R has no gap.
SymLabelsAreRanks ==
    (CalledSym /\ natoms >= 1 /\ NonNegativeRanks) =>
        /\ ret.kind = "return"
        /\ \A i \in 0..(natoms - 1) :
               /\ i \in DOMAIN ret.value
               /\ ret.value[i] = str(RankArray[i + 1])
               /\ ret.value[i] = cipRank[i + 1]

SymLabelsAreRanksWitness ==
    /\ CalledSym
    /\ natoms = 3
    /\ cipRank = <<str(5), str(5), str(5)>>
    /\ ret.kind = "return"
    /\ Labels(ret.value) = {<<"5">>}

\* C4: with an empty rank array or a negative rank the classification ends in
\* an error; it never returns a mapping.
SymRejectsBadRanks ==
    (CalledSym /\ (natoms = 0 \/ SomeNegativeRank)) => ret.kind = "raise"

\* C10, as claimed: a classification leaves the molecule, its rank
\* annotations included, as it found it.
SymNoSideEffect ==
    [][<<natoms, cipRank, conformers>>' = <<natoms, cipRank, conformers>>]_vars

\* C10, amended: a classification leaves the atoms and the conformers as they
\* are; it leaves the ranks as they are when the first atom carries one (or
\* there is no atom), and otherwise writes a rank on every atom.
SymWritesOnlyMissingRanks ==
    [][/\ natoms' = natoms
       /\ conformers' = conformers
       /\ (natoms = 0 \/ HasProp(cipRank[1])) => cipRank' = cipRank
       /\ (natoms >= 1 /\ ~HasProp(cipRank[1])) =>
              \A a \in 1..natoms : HasProp(cipRank'[a])]_vars

SymWritesOnlyMissingRanksWitness ==
    /\ CalledSym
    /\ natoms >= 2
    /\ toolkitCalls = <<"AssignStereochemistry">>
    /\ AllRanked
    /\ conformers # <<>>
    /\ ret.kind = "return"

\* ---------------------------------------------------------------- add_conformer, generate_conformers

\* The coordinates a caller supplies: (x, y, z) triples.
Points == {<<0, 0, 0>>, <<1, 2, 3>>}

\* any number of them, one more than the atoms at most
CoordInputs == UNION {[1..m -> Points] : m \in 0..(natoms + 1)}

Point3DSwapped(coord) == [x |-> coord[1], y |-> coord[3], z |-> coord[2]]

\* Point3D(*coord)
Point3D(coord) == [x |-> coord[1], y |-> coord[2], z |-> coord[3]]

ChemConformerSized == [a \in 1..natoms |-> Origin]

\* Chem.Conformer(): a conformer of no atom
ChemConformer == <<>>

\* conformer.SetAtomPosition(i, atom_position): the toolkit grows the
\* conformer, with atoms at the origin, to hold the atom index i (from 0).
SetAtomPosition(conformer, i, pos) ==
    LET n == IF i + 1 > Len(conformer) THEN i + 1 ELSE Len(conformer)
    IN  [k \in 1..n |-> IF k = i + 1 THEN pos
                        ELSE IF k <= Len(conformer) THEN conformer[k] ELSE Origin]

\* for i, coord in enumerate(conformer_coordinates):
\*     conformer.SetAtomPosition(i, Point3D(*coord))
FillConformer(conformer_coordinates) ==
    LET F[k \in 0..Len(conformer_coordinates)] ==
            IF k = 0 THEN ChemConformer
            ELSE SetAtomPosition(F[k - 1], k - 1, Point3D(conformer_coordinates[k]))
    IN  F[Len(conformer_coordinates)]

\* rdkit_mol.AddConformer(conformer, assignId=True): the toolkit takes a copy
\* of a conformer of as many atoms as the molecule has under the next free
\* index, and refuses any other conformer.
AddConformerAccepts(conformer) == Len(conformer) = natoms

AddConformer(confs, conformer) ==
    IF AddConformerAccepts(conformer)
    THEN [raised |-> FALSE, confs |-> Append(confs, conformer)]
    ELSE [raised |-> TRUE, confs |-> confs]

\* conformer.GetPositions(): one (x, y, z) row per atom
GetPositions(conformer) ==
    [a \in 1..Len(conformer) |-> <<conformer[a].x, conformer[a].y, conformer[a].z>>]

\* The geometries an embedding may come up with.
EmbeddedConformers ==
    {[a \in 1..natoms |-> [x |-> a - 1, y |-> 0, z |-> 0]],
     [a \in 1..natoms |-> [x |-> 0, y |-> a - 1, z |-> 0]]}

\* AllChem.EmbedMultipleConfs(rdkit_mol, numConfs=conformer_no): the toolkit
\* drops the conformers the molecule holds (clearConfs defaults to True) and
\* adds one conformer per embedding that succeeds; one that fails adds none
\* and raises nothing.
EmbedMultipleConfs(confs, numConfs) ==
    UNION {[1..j -> EmbeddedConformers] : j \in 0..numConfs}

ConfInit ==
    /\ natoms \in 0..MaxAtoms
    /\ cipRank = [a \in 1..natoms |-> NoProp]
    /\ conformers = <<>>
    /\ call = NoCall
    /\ ret = NoResult
    /\ toolkitCalls = <<>>
    /\ files = {}

add_conformer ==
    /\ Len(conformers) < MaxConfs
    /\ \E conformer_coordinates \in CoordInputs :
          LET added == AddConformer(conformers, FillConformer(conformer_coordinates))
          IN  /\ call' = [op |-> "add_conformer", coords |-> conformer_coordinates]
              /\ conformers' = added.confs
              /\ ret' = IF added.raised THEN Raise("RuntimeError")
                        ELSE Return("rdkit_mol")
    /\ toolkitCalls' = <<"AddConformer">>
    /\ UNCHANGED <<natoms, cipRank, files>>

generate_conformers ==
    /\ natoms >= 1
    /\ \E conformer_no \in 1..MaxConfs :
          /\ call' = [op |-> "generate_conformers", conformer_no |-> conformer_no]
          /\ conformers' \in EmbedMultipleConfs(conformers, conformer_no)
    /\ ret' = Return([c \in 1..Len(conformers') |-> GetPositions(conformers'[c])])
    /\ toolkitCalls' = <<"EmbedMultipleConfs">>
    /\ UNCHANGED <<natoms, cipRank, files>>

ConfNext == add_conformer \/ generate_conformers

SpecConf == ConfInit /\ [][ConfNext]_vars

\* ---------------------------------------------------------------- conformers: properties

\* C5: add_conformer with a number of coordinates other than the atom count
\* ends in an error and appends nothing.
ConfRejectsWrongLength ==
    [][(call'.op = "add_conformer" /\ Len(call'.coords) # natoms) =>
           (ret'.kind = "raise" /\ conformers' = conformers)]_vars

ConfRejectsWrongLengthWitness ==
    /\ call.op = "add_conformer"
    /\ natoms = 2
    /\ Len(call.coords) = 1
    /\ ret.kind = "raise"
    /\ Len(conformers) = 1

\* C6: add_conformer with one coordinate per atom appends exactly one
\* conformer, which reads back as the coordinates supplied, and leaves every
\* conformer the molecule held where and as it was.
ConfAppendOnly ==
    [][(call'.op = "add_conformer" /\ Len(call'.coords) = natoms) =>
           /\ ret'.kind = "return"
           /\ Len(conformers') = Len(conformers) + 1
           /\ \A c \in 1..Len(conformers) : conformers'[c] = conformers[c]
           /\ GetPositions(conformers'[Len(conformers')]) = call'.coords]_vars

ConfAppendOnlyWitness ==
    /\ call.op = "add_conformer"
    /\ natoms = 2
    /\ call.coords = <<(<<0, 0, 0>>), (<<1, 2, 3>>)>>
    /\ ret.kind = "return"
    /\ Len(conformers) = 2
    /\ GetPositions(conformers[1]) = <<(<<1, 2, 3>>), (<<1, 2, 3>>)>>
    /\ GetPositions(conformers[2]) = call.coords

\* C7: generate_conformers(mol, K) returns exactly K coordinate sets,
\* whatever the molecule held before.
GenReturnsExactlyK ==
    (call.op = "generate_conformers") =>
        (ret.kind = "return" /\ Len(ret.value) = call.conformer_no)

\* What does hold of generate_conformers: it returns the conformers this call
\* embedded, K at most, and none the molecule held before.
GenReturnsAtMostK ==
    [][(call'.op = "generate_conformers") =>
           /\ ret'.kind = "return"
           /\ Len(ret'.value) <= call'.conformer_no
           /\ Len(ret'.value) = Len(conformers')
           /\ \A c \in 1..Len(ret'.value) :
                  \E e \in EmbeddedConformers : ret'.value[c] = GetPositions(e)]_vars

\* ---------------------------------------------------------------- mol_input_to_rdkit_mol, mm_optimise

None == "<None>"

\* A molecule the toolkit hands back, by the function that made it and the
\* text or file name it was made from; NoneMol is Python's None.
NoneMol == [origin |-> None, source |-> None, name |-> None, hasConformer |-> FALSE]
Mol(origin, source, name, hasConformer) ==
    [origin |-> origin, source |-> source, name |-> name, hasConformer |-> hasConformer]

\* The inputs: a str, or a pathlib.Path given by its stem and its suffix.
Stems == {"mol", "lig"}
Suffixes == {".pdb", ".mol2", ".mol", ".xyz", ".PDB", ""}
SmilesTexts == {"CCO", "C1CC", "mol.pdb"}
ValidSmiles == {"CCO"}
MolInputs ==
    {[kind |-> "str", text |-> t] : t \in SmilesTexts}
        \cup {[kind |-> "path", stem |-> st, suffix |-> sf] : st \in Stems, sf \in Suffixes}
Names == {None, "ethanol"}
Selectors == {"MMF", "UFF", "MMFF94", "uff"}

\* mol_input.name of a path
PathName(path) == path.stem \o path.suffix

\* An outcome of a method: how it ends, the toolkit functions it invoked
\* and the files it wrote.
Outcome(r, calls, written) == [ret |-> r, calls |-> calls, written |-> written]

\* smiles_to_rdkit_mol(smiles_string, name). MolFromSmiles gives None for
\* text that is no SMILES; a missing name is asked for at the terminal;
\* EmbedMolecule may fail and then leaves the molecule without a conformer.
smiles_to_rdkit_mol(smiles_string, name) ==
    LET asked == IF name = None THEN <<"MolFromSmiles", "input">> ELSE <<"MolFromSmiles">>
        named == IF name = None THEN "typed" ELSE name
    IN  IF smiles_string \notin ValidSmiles
        THEN \* mol.SetProp of None
             {Outcome(Raise("AttributeError"), asked, {})}
        ELSE {Outcome(Return(Mol("MolFromSmiles", smiles_string, named, embedded)),
                      asked \o <<"SetProp", "AddHs", "EmbedMolecule", "SanitizeMol">>, {})
                  : embedded \in BOOLEAN}

SuffixParserFallback(suffix) ==
    CASE suffix = ".pdb" -> "MolFromPDBFile"
      [] suffix = ".mol2" -> "MolFromMol2File"
      [] OTHER -> "MolFromMolFile"

\* the if / elif / elif on mol_input.suffix, and the return None after it
SuffixParser(suffix) ==
    CASE suffix = ".pdb" -> "MolFromPDBFile"
      [] suffix = ".mol2" -> "MolFromMol2File"
      [] suffix = ".mol" -> "MolFromMolFile"
      [] OTHER -> None

\* Chem.MolFrom...File(mol_input.name, removeHs=False): the molecule, None
\* for a file the toolkit cannot make a molecule of, an error for one it
\* cannot open.
ParseFile(parser, file_name) ==
    {Outcome(Return(Mol(parser, file_name, None, TRUE)), <<parser>>, {}),
     Outcome(Return(NoneMol), <<parser>>, {}),
     Outcome(Raise("OSError"), <<parser>>, {})}

mol_input_to_rdkit_mol(mol_input, name) ==
    IF mol_input.kind = "str"
    THEN smiles_to_rdkit_mol(mol_input.text, name)
    ELSE IF SuffixParser(mol_input.suffix) = None
         THEN {Outcome(Return(NoneMol), <<>>, {})}
         ELSE ParseFile(SuffixParser(mol_input.suffix), PathName(mol_input))

SelectOptimiserDefault(ff) ==
    CASE ff = "UFF" -> "UFFOptimizeMolecule"
      [] OTHER -> "MMFFOptimizeMolecule"

\* {"MMF": MMFFOptimizeMolecule, "UFF": UFFOptimizeMolecule}[ff]
SelectOptimiser(ff) ==
    CASE ff = "MMF" -> "MMFFOptimizeMolecule"
      [] ff = "UFF" -> "UFFOptimizeMolecule"
      [] OTHER -> "KeyError"

Optimisers == {"MMFFOptimizeMolecule", "UFFOptimizeMolecule"}

\* mm_optimise(filename, ff), after mol_input_to_rdkit_mol(filename) ended as `got`
OptimiseAndWrite(filename, ff, got) ==
    LET mol == got.ret.value
        optimiser == SelectOptimiser(ff)
        ran == Append(got.calls, optimiser)
    IN  IF got.ret.kind = "raise" THEN got
        ELSE IF optimiser \notin Optimisers
        THEN Outcome(Raise("KeyError"), got.calls, {})
        ELSE IF mol = NoneMol
        THEN \* the optimiser refuses None
             Outcome(Raise("ArgumentError"), ran, {})
        ELSE IF ~mol.hasConformer
        THEN \* the optimiser finds no conformer to optimise
             Outcome(Raise("ValueError"), ran, {})
        ELSE IF filename.kind = "str"
        THEN \* filename.stem of a str
             Outcome(Raise("AttributeError"), ran, {})
        ELSE Outcome(Return(filename.stem \o "_rdkit_optimised.pdb"),
                     Append(ran, "MolToPDBFile"),
                     {filename.stem \o "_rdkit_optimised.pdb"})

IOInit ==
    /\ natoms = 0
    /\ cipRank = <<>>
    /\ conformers = <<>>
    /\ call = NoCall
    /\ ret = NoResult
    /\ toolkitCalls = <<>>
    /\ files = {}

mol_input_to_rdkit_mol_call ==
    /\ \E mol_input \in MolInputs, name \in Names :
          \E got \in mol_input_to_rdkit_mol(mol_input, name) :
              /\ call' = [op |-> "mol_input_to_rdkit_mol", mol_input |-> mol_input,
                          name |-> name]
              /\ ret' = got.ret
              /\ toolkitCalls' = got.calls
    /\ UNCHANGED <<natoms, cipRank, conformers, files>>

mm_optimise ==
    /\ \E filename \in MolInputs, ff \in Selectors :
          \E got \in mol_input_to_rdkit_mol(filename, None) :
              LET done == OptimiseAndWrite(filename, ff, got)
              IN  /\ call' = [op |-> "mm_optimise", filename |-> filename, ff |-> ff]
                  /\ ret' = done.ret
                  /\ toolkitCalls' = done.calls
                  /\ files' = files \cup done.written
    /\ UNCHANGED <<natoms, cipRank, conformers>>

IONext == mol_input_to_rdkit_mol_call \/ mm_optimise

SpecIO == IOInit /\ [][IONext]_vars

\* ---------------------------------------------------------------- input dispatch and optimisation: properties

Invoked(calls) == {calls[k] : k \in 1..Len(calls)}
FileParsers == {"MolFromPDBFile", "MolFromMol2File", "MolFromMolFile"}
ParserOfSuffix == [sf \in {".pdb", ".mol2", ".mol"} |->
                      CASE sf = ".pdb" -> "MolFromPDBFile"
                        [] sf = ".mol2" -> "MolFromMol2File"
                        [] sf = ".mol" -> "MolFromMolFile"]

\* C8: a str goes to the SMILES conversion, a path with suffix .pdb, .mol2
\* or .mol to the PDB, MOL2 or MOL parser, and a path with any other suffix
\* gives None, with no error and no parser invoked.
DispatchByShape ==
    (call.op = "mol_input_to_rdkit_mol") =>
        LET given == call.mol_input
        IN  /\ given.kind = "str" =>
                  /\ toolkitCalls[1] = "MolFromSmiles"
                  /\ Invoked(toolkitCalls) \cap FileParsers = {}
                  /\ ret.kind = "return" =>
                         (ret.value.origin = "MolFromSmiles" /\ ret.value.source = given.text)
            /\ (given.kind = "path" /\ given.suffix \in DOMAIN ParserOfSuffix) =>
                  /\ toolkitCalls = <<ParserOfSuffix[given.suffix]>>
                  /\ (ret.kind = "return" /\ ret.value # NoneMol) =>
                         /\ ret.value.origin = ParserOfSuffix[given.suffix]
                         /\ ret.value.source = given.stem \o given.suffix
            /\ (given.kind = "path" /\ given.suffix \notin DOMAIN ParserOfSuffix) =>
                  /\ ret = Return(NoneMol)
                  /\ toolkitCalls = <<>>

DispatchByShapeWitness ==
    /\ call.op = "mol_input_to_rdkit_mol"
    /\ call.mol_input = [kind |-> "path", stem |-> "lig", suffix |-> ".xyz"]
    /\ ret = Return(NoneMol)
    /\ toolkitCalls = <<>>

\* C9: mm_optimise with a selector other than "MMF" and "UFF" ends in an
\* error, runs no optimisation and writes no file; and a file is written only
\* after an optimisation that completed.
OptimiseRejectsUnknownSelector ==
    [][(call'.op = "mm_optimise") =>
           /\ call'.ff \notin {"MMF", "UFF"} =>
                  /\ ret'.kind = "raise"
                  /\ files' = files
                  /\ Invoked(toolkitCalls') \cap (Optimisers \cup {"MolToPDBFile"}) = {}
           /\ (files' # files \/ "MolToPDBFile" \in Invoked(toolkitCalls')) =>
                  /\ ret'.kind = "return"
                  /\ toolkitCalls'[Len(toolkitCalls')] = "MolToPDBFile"
                  /\ toolkitCalls'[Len(toolkitCalls') - 1] \in Optimisers
                  /\ ret'.value \in files']_vars

OptimiseRejectsUnknownSelectorWitness ==
    /\ call.op = "mm_optimise"
    /\ call.ff = "MMFF94"
    /\ call.filename = [kind |-> "path", stem |-> "mol", suffix |-> ".pdb"]
    /\ ret = Raise("KeyError")
    /\ toolkitCalls = <<"MolFromPDBFile">>
    /\ files = {"lig_rdkit_optimised.pdb"}

====
